---- MODULE Spec2Model ----
(***************************************************************************)
(* A model of src/src/diagnostics.ts: the functions that turn jest test    *)
(* results into the entries of a vscode.DiagnosticCollection.              *)
(*                                                                         *)
(* An optional value of the source (a field that may be undefined) is a    *)
(* sequence of length at most one: <<>> is undefined, <<v>> is v.          *)
(* The collection is a function from the file identities it holds to their *)
(* marker lists; a file that is not in its domain has no entry.            *)
(***************************************************************************)
EXTENDS Integers, Sequences, FiniteSets, TLC

VARIABLES collection, exists, lastOp, lastArg, pre, ret

vars == <<collection, exists, lastOp, lastArg, pre, ret>>

(***************************************************************************)
(* Bounds of the model.                                                    *)
(***************************************************************************)
\* the largest 1-based line number an assertion reports
MaxLine == 2
\* the longest assertions array of a file result
MaxAssertions == 2
\* the longest batch handed to updateDiagnostics
MaxBatch == 2
\* the longest multiResults array of a test result
MaxSub == 3

(***************************************************************************)
(* Values of the source.                                                   *)
(***************************************************************************)
Files == {"a.test", "b.test"}

KnownFail == "KnownFail"
KnownSuccess == "KnownSuccess"
Unknown == "Unknown"

\* endCol's default: Number.MAX_SAFE_INTEGER is 2^53 - 1, which the checker's
\* integers cannot hold; the largest integer they hold stands for it (it is
\* only ever stored and compared, never computed with).
MAX_SAFE_INTEGER == 2147483647

\* the text of the active editor's document, line by line (0-based in the
\* source, so line i of the source is Document[i + 1])
Document == <<"describe('suite', () => {", "", "  expect(1).toBe(2);">>

None == <<>>
Some(v) == <<v>>

\* JavaScript truthiness of an optional string / an optional number
TruthyStr(o) == o # <<>> /\ o[1] # ""
TruthyNum(o) == o # <<>> /\ o[1] # 0

(***************************************************************************)
(* vscode.DiagnosticCollection: set keeps the list it is given (an empty   *)
(* one too), delete removes the key, clear removes every key, forEach      *)
(* visits every key the collection holds.                                  *)
(***************************************************************************)
CollectionSet(c, uri, diags) ==
  [f \in (DOMAIN c) \cup {uri} |-> IF f = uri THEN diags ELSE c[f]]

CollectionDelete(c, uri) == [f \in (DOMAIN c) \ {uri} |-> c[f]]

CollectionClear(c) == [f \in {} |-> <<>>]

CollectionKeys(c) == DOMAIN c

\* vscode.Uri.file(path): the file identity of a path; fsPath gives the path back
UriFile(path) == [scheme |-> "file", fsPath |-> path]

Uris == {UriFile(p) : p \in Files}

(***************************************************************************)
(* helpers.testIdString('display', identifier): the non-empty parts of the *)
(* hierarchical name joined with " > ".                                    *)
(***************************************************************************)
RECURSIVE JoinParts(_)
JoinParts(parts) ==
  IF parts = <<>> THEN ""
  ELSE IF Len(parts) = 1 THEN parts[1]
  ELSE parts[1] \o " > " \o JoinParts(Tail(parts))

testIdString(identifier) ==
  JoinParts(SelectSeq(identifier.ancestorTitles \o <<identifier.title>>,
                      LAMBDA p : p # ""))

(***************************************************************************)
(* createDiagnosticWithRange, createDiagnostic                             *)
(***************************************************************************)
\* a template literal prints an undefined message as the word undefined
TemplateText(message) == IF message = <<>> THEN "undefined" ELSE message[1]

Range(startLine, startCol, endLine, endCol) ==
  [startLine |-> startLine, startCol |-> startCol,
   endLine |-> endLine, endCol |-> endCol]

createDiagnosticWithRange(message, range, testName) ==
  [range |-> range,
   message |-> IF testName # <<>> /\ testName[1] # ""
               THEN Some(testName[1] \o "\n-----\n" \o TemplateText(message))
               ELSE message,
   severity |-> "Error",
   source |-> "Jest"]

\* createDiagnostic without the shift from 1-based to 0-based lines
createDiagnostic_NoShift(message, lineNumber, name, startCol, endCol) ==
  LET line == IF lineNumber > 0 THEN lineNumber ELSE 0
  IN createDiagnosticWithRange(message, Range(line, startCol, line, endCol), name)

createDiagnostic(message, lineNumber, name, startCol, endCol) ==
  LET line == IF lineNumber > 0 THEN lineNumber - 1 ELSE 0
  IN createDiagnosticWithRange(message, Range(line, startCol, line, endCol), name)

(***************************************************************************)
(* updateDiagnostics (the coarse pass)                                     *)
(***************************************************************************)
\* addTestFileError without the fallback message
addTestFileError_NoFallback(c, result, uri) ==
  CollectionSet(c, uri, <<createDiagnostic(result.message, 0, None, 0, 0)>>)

\* addTestFileError adding its marker to the markers the file holds
addTestFileError_Appends(c, result, uri) ==
  LET diag == createDiagnostic(
                Some(IF TruthyStr(result.message) THEN result.message[1]
                     ELSE "test file error"),
                0, None, 0, 0)
  IN CollectionSet(c, uri, (IF uri \in DOMAIN c THEN c[uri] ELSE <<>>) \o <<diag>>)

addTestFileError(c, result, uri) ==
  LET diag == createDiagnostic(
                Some(IF TruthyStr(result.message) THEN result.message[1]
                     ELSE "test file error"),
                0, None, 0, 0)
  IN CollectionSet(c, uri, <<diag>>)

\* the Diagnostic of a failing assertion with the columns of the file-level one
AssertionDiagnostic_ZeroWidth(assertion) ==
  createDiagnostic(
    IF TruthyStr(assertion.shortMessage) THEN assertion.shortMessage
    ELSE assertion.message,
    IF assertion.line = <<>> THEN -1 ELSE assertion.line[1],
    Some(testIdString(assertion)),
    0, 0)

\* the Diagnostic of one failing assertion (the callback of asserts.map)
AssertionDiagnostic(assertion) ==
  createDiagnostic(
    IF TruthyStr(assertion.shortMessage) THEN assertion.shortMessage
    ELSE assertion.message,
    IF assertion.line = <<>> THEN -1 ELSE assertion.line[1],
    Some(testIdString(assertion)),
    0, MAX_SAFE_INTEGER)

FailingAssertions(assertions) ==
  SelectSeq(assertions, LAMBDA a : a.status = KnownFail)

\* addTestsError adding its markers to the markers the file holds
addTestsError_Appends(c, result, uri) ==
  IF result.assertions = <<>> THEN c
  ELSE LET asserts == FailingAssertions(result.assertions[1])
       IN CollectionSet(c, uri,
            (IF uri \in DOMAIN c THEN c[uri] ELSE <<>>)
            \o [i \in 1..Len(asserts) |-> AssertionDiagnostic(asserts[i])])

addTestsError(c, result, uri) ==
  IF result.assertions = <<>> THEN c
  ELSE LET asserts == FailingAssertions(result.assertions[1])
       IN CollectionSet(c, uri,
            [i \in 1..Len(asserts) |-> AssertionDiagnostic(asserts[i])])

\* the body of testResults.forEach without the default case
ProcessResult_NoDefault(c, result) ==
  LET uri == UriFile(result.file)
  IN IF result.status = KnownFail
     THEN IF result.assertions # <<>> /\ Len(result.assertions[1]) <= 0
          THEN addTestFileError(c, result, uri)
          ELSE addTestsError(c, result, uri)
     ELSE c

\* the body of testResults.forEach
ProcessResult(c, result) ==
  LET uri == UriFile(result.file)
  IN IF result.status = KnownFail
     THEN IF result.assertions # <<>> /\ Len(result.assertions[1]) <= 0
          THEN addTestFileError(c, result, uri)
          ELSE addTestsError(c, result, uri)
     ELSE CollectionDelete(c, uri)

\* the results applied last to first
RECURSIVE ForEachResult_Reversed(_, _)
ForEachResult_Reversed(c, testResults) ==
  IF testResults = <<>> THEN c
  ELSE ProcessResult(ForEachResult_Reversed(c, Tail(testResults)), Head(testResults))

RECURSIVE ForEachResult(_, _)
ForEachResult(c, testResults) ==
  IF testResults = <<>> THEN c
  ELSE ForEachResult(ProcessResult(c, Head(testResults)), Tail(testResults))

\* existsSync(uri.fsPath), ex being what the file system holds
existsSync(ex, path) == ex[path]

RECURSIVE DeleteAll(_, _)
DeleteAll(c, uris) ==
  IF uris = {} THEN c
  ELSE LET uri == CHOOSE u \in uris : TRUE
       IN DeleteAll(CollectionDelete(c, uri), uris \ {uri})

\* a sweep that removes the files that exist
Sweep_Inverted(c, ex) ==
  DeleteAll(c, {uri \in CollectionKeys(c) : existsSync(ex, uri.fsPath)})

\* a sweep that removes nothing
Sweep_None(c, ex) == c

\* remove diagnostics for files no longer in existence
Sweep(c, ex) ==
  LET toBeDeleted == {uri \in CollectionKeys(c) : ~existsSync(ex, uri.fsPath)}
  IN DeleteAll(c, toBeDeleted)

updateDiagnostics(testResults, c, ex) == Sweep(ForEachResult(c, testResults), ex)

(***************************************************************************)
(* updateCurrentDiagnostics (the precise pass, for the active editor)      *)
(***************************************************************************)
\* the sub-results of a result that does not fail itself are dropped
AllResults_FilterFirst(tr) ==
  IF tr.status # KnownFail THEN <<>>
  ELSE IF tr.multiResults # <<>> THEN <<tr>> \o tr.multiResults[1] ELSE <<tr>>

\* tr.multiResults ? [tr, ...tr.multiResults] : [tr]
AllResults(tr) ==
  IF tr.multiResults # <<>> THEN <<tr>> \o tr.multiResults[1] ELSE <<tr>>

FailingResults(tr) == SelectSeq(AllResults(tr), LAMBDA r : r.status = KnownFail)

\* the failing items of all results, in the order reduce visits them
RECURSIVE AllFailing(_)
AllFailing(testResults) ==
  IF testResults = <<>> THEN <<>>
  ELSE FailingResults(Head(testResults)) \o AllFailing(Tail(testResults))

\* r.lineNumberOfError || r.end.line
ErrorLine(r) ==
  IF TruthyNum(r.lineNumberOfError) THEN r.lineNumberOfError[1] ELSE r.end.line

\* editor.document.lineAt(line) fails for a line the document does not have
LineInRange(document, line) == line >= 0 /\ line < Len(document.lines)

TextLineRange(document, line) ==
  Range(line, 0, line, Len(document.lines[line + 1]))

ResultDiagnostic(r, document) ==
  createDiagnosticWithRange(
    Some(IF TruthyStr(r.shortMessage) THEN r.shortMessage[1]
         ELSE IF TruthyStr(r.terseMessage) THEN r.terseMessage[1]
         ELSE "unknown error"),
    TextLineRange(document, ErrorLine(r)),
    Some(testIdString(r.identifier)))

\* reduce and set, on a collection emptied first
ReduceAndSet_OnlyActive(testResults, c, editor) ==
  LET uri == editor.document.uri
      failing == AllFailing(testResults)
      bad == {i \in 1..Len(failing) :
                ~LineInRange(editor.document, ErrorLine(failing[i]))}
      firstBad == CHOOSE i \in bad : \A j \in bad : i <= j
  IN IF bad # {}
     THEN [collection |-> c,
           lineAt |-> [i \in 1..firstBad |-> ErrorLine(failing[i])],
           threw |-> TRUE]
     ELSE [collection |->
             CollectionSet(CollectionClear(c), uri,
               [i \in 1..Len(failing) |->
                  ResultDiagnostic(failing[i], editor.document)]),
           lineAt |-> [i \in 1..Len(failing) |-> ErrorLine(failing[i])],
           threw |-> FALSE]

\* reduce and set, setting the markers made before lineAt failed
ReduceAndSet_SetsPartial(testResults, c, editor) ==
  LET uri == editor.document.uri
      failing == AllFailing(testResults)
      bad == {i \in 1..Len(failing) :
                ~LineInRange(editor.document, ErrorLine(failing[i]))}
      firstBad == CHOOSE i \in bad : \A j \in bad : i <= j
      made == IF bad # {} THEN firstBad - 1 ELSE Len(failing)
  IN [collection |->
        CollectionSet(c, uri,
          [i \in 1..made |-> ResultDiagnostic(failing[i], editor.document)]),
      lineAt |-> [i \in 1..(IF bad # {} THEN firstBad ELSE Len(failing)) |->
                    ErrorLine(failing[i])],
      threw |-> bad # {}]

\* the outcome of a call: the collection after it, the lines asked of lineAt
\* in order, and whether lineAt failed (the call then ends at that lookup).
\* This is the call for a result list that is not empty: reduce, then set.
ReduceAndSet(testResults, c, editor) ==
  LET uri == editor.document.uri
      failing == AllFailing(testResults)
      bad == {i \in 1..Len(failing) :
                ~LineInRange(editor.document, ErrorLine(failing[i]))}
      firstBad == CHOOSE i \in bad : \A j \in bad : i <= j
  IN IF bad # {}
     THEN [collection |-> c,
           lineAt |-> [i \in 1..firstBad |-> ErrorLine(failing[i])],
           threw |-> TRUE]
     ELSE [collection |->
             CollectionSet(c, uri,
               [i \in 1..Len(failing) |->
                  ResultDiagnostic(failing[i], editor.document)]),
           lineAt |-> [i \in 1..Len(failing) |-> ErrorLine(failing[i])],
           threw |-> FALSE]

\* updateCurrentDiagnostics without the case of no results
updateCurrentDiagnostics_NoEmptyCase(testResults, c, editor) ==
  ReduceAndSet(testResults, c, editor)

updateCurrentDiagnostics(testResults, c, editor) ==
  IF Len(testResults) = 0
  THEN [collection |-> CollectionDelete(c, editor.document.uri),
        lineAt |-> <<>>, threw |-> FALSE]
  ELSE ReduceAndSet(testResults, c, editor)

(***************************************************************************)
(* resetDiagnostics, failedSuiteCount                                      *)
(***************************************************************************)
\* resetDiagnostics removing only the files without markers
resetDiagnostics_KeepsMarkers(c) ==
  [uri \in {u \in DOMAIN c : c[u] # <<>>} |-> c[uri]]

resetDiagnostics(c) == CollectionClear(c)

\* diagnostics.forEach(() => sum++)
failedSuiteCount(c) == Cardinality(CollectionKeys(c))

(***************************************************************************)
(* The inputs the operations are called with.                              *)
(***************************************************************************)
SeqsUpTo(S, n) == UNION {[1..k -> S] : k \in 0..n}

Assertion(status, line, shortMessage, message, ancestorTitles, title) ==
  [status |-> status, line |-> line, shortMessage |-> shortMessage,
   message |-> message, ancestorTitles |-> ancestorTitles, title |-> title]

\* failing assertions: with no line, a non-positive line, the largest line
Assertions ==
  {Assertion(KnownFail, l, Some("expected 1, got 2"), Some("Error: 1 != 2"),
             <<"suite">>, "case") : l \in {None, Some(0), Some(MaxLine)}}
  \cup {Assertion(KnownSuccess, Some(1), None, Some(""), <<"suite">>, "ok"),
        Assertion(Unknown, None, None, None, <<>>, "")}

FileResult(file, status, message, assertions) ==
  [file |-> file, status |-> status, message |-> message,
   assertions |-> assertions]

\* the results every file is reported with: not failing; failing with the
\* assertions array missing, empty, or holding one failing assertion
PlainResults ==
  {FileResult(f, KnownSuccess, None, Some(<<>>)) : f \in Files}
  \cup {FileResult(f, KnownFail, None, None) : f \in Files}
  \cup {FileResult(f, KnownFail, None, Some(<<>>)) : f \in Files}
  \cup {FileResult(f, KnownFail, None,
                   Some(<<Assertion(KnownFail, Some(MaxLine), None,
                                    Some("Error: 1 != 2"), <<>>, "case")>>)) :
          f \in Files}

\* the results one file is reported with in every detail: any status, a
\* file-level message that is missing, empty or given, any assertions array,
\* a failing assertion without any message (named and unnamed)
DetailFile == "a.test"

DetailResults ==
  {FileResult(DetailFile, Unknown, None, None)}
  \cup {FileResult(DetailFile, KnownFail, m, Some(<<>>)) :
          m \in {Some(""), Some("SyntaxError")}}
  \cup {FileResult(DetailFile, st, None, Some(a)) :
          st \in {KnownFail, KnownSuccess},
          a \in SeqsUpTo(Assertions, MaxAssertions) \ {<<>>}}
  \cup {FileResult(DetailFile, KnownFail, None,
                   Some(<<Assertion(KnownFail, Some(1), None, None, <<>>, t)>>)) :
          t \in {"", "case"}}

FileResults == PlainResults \cup DetailResults

\* a batch is empty, one result, or several plain results (the same file may
\* be reported more than once)
Batches ==
  SeqsUpTo(FileResults, 1)
  \cup (SeqsUpTo(PlainResults, MaxBatch) \ SeqsUpTo(PlainResults, 1))

TestResult(status, lineNumberOfError, endLine, shortMessage, terseMessage, ancestorTitles, title, multiResults) ==
  [status |-> status, lineNumberOfError |-> lineNumberOfError,
   end |-> [line |-> endLine], shortMessage |-> shortMessage,
   terseMessage |-> terseMessage,
   identifier |-> [ancestorTitles |-> ancestorTitles, title |-> title],
   multiResults |-> multiResults]

\* the grouped sub-results a result may carry
SubResults ==
  {TestResult(KnownFail, None, 2, None, Some("1 != 2"), <<"suite">>, "each 1", None),
   TestResult(KnownSuccess, None, 2, None, None, <<"suite">>, "each 2", None)}

\* top-level results: failing or not, with or without sub-results; the error
\* line given, zero or missing; the end line inside or outside the document
TopResults ==
  {TestResult(st, None, 0, Some("expected 1, got 2"), None, <<"suite">>, "case", m) :
     st \in {KnownFail, KnownSuccess},
     m \in {None} \cup {Some(sub) : sub \in SeqsUpTo(SubResults, MaxSub)}}
  \cup {TestResult(KnownFail, Some(2), 0, None, None, <<>>, "", None),
        TestResult(KnownFail, Some(0), 1, None, Some("1 != 2"), <<>>, "case", None),
        TestResult(KnownFail, None, Len(Document), None, None, <<>>, "case", None)}

PlainTopResults ==
  {TestResult(st, None, 0, Some("expected 1, got 2"), None, <<"suite">>, "case", None) :
     st \in {KnownFail, KnownSuccess}}

Editor(path) == [document |-> [uri |-> UriFile(path), lines |-> Document]]

\* what updateCurrentDiagnostics is called with: any result list for the
\* editor of the detailed file, a plain one for the editor of another file
CurrentInputs ==
  {[testResults |-> t, editor |-> Editor(DetailFile)] :
     t \in SeqsUpTo(TopResults, 1)
           \cup {<<a, b>> : a \in PlainTopResults, b \in TopResults \ PlainTopResults}}
  \cup {[testResults |-> t, editor |-> Editor(f)] :
          t \in SeqsUpTo(PlainTopResults, 1), f \in Files \ {DetailFile}}

(***************************************************************************)
(* The state machine: the collection and the files on disk, with what the  *)
(* last call was, what it was given, the collection before it and what it  *)
(* returned. The host calls one operation at a time.                       *)
(***************************************************************************)
NoRet == [value |-> 0, lineAt |-> <<>>, threw |-> FALSE]

Init ==
  /\ collection = [u \in {} |-> <<>>]
  /\ exists = [p \in Files |-> TRUE]
  /\ lastOp = "none"
  /\ lastArg = <<>>
  /\ pre = [u \in {} |-> <<>>]
  /\ ret = NoRet

UpdateDiagnostics(testResults) ==
  /\ lastOp = "none"
  /\ collection' = updateDiagnostics(testResults, collection, exists)
  /\ lastOp' = "updateDiagnostics"
  /\ lastArg' = testResults
  /\ pre' = collection
  /\ ret' = NoRet
  /\ UNCHANGED exists

\* the same batch handed to updateDiagnostics a second time, right away
UpdateDiagnosticsAgain ==
  /\ lastOp = "updateDiagnostics"
  /\ collection' = updateDiagnostics(lastArg, collection, exists)
  /\ lastOp' = "updateDiagnosticsAgain"
  /\ pre' = collection
  /\ UNCHANGED <<exists, lastArg, ret>>

UpdateCurrentDiagnostics(testResults, editor) ==
  /\ lastOp = "none"
  /\ LET out == updateCurrentDiagnostics(testResults, collection, editor)
     IN /\ collection' = out.collection
        /\ ret' = [value |-> 0, lineAt |-> out.lineAt, threw |-> out.threw]
  /\ lastOp' = "updateCurrentDiagnostics"
  /\ lastArg' = [testResults |-> testResults, editor |-> editor]
  /\ pre' = collection
  /\ UNCHANGED exists

ResetDiagnostics ==
  /\ lastOp = "none"
  /\ collection' = resetDiagnostics(collection)
  /\ lastOp' = "resetDiagnostics"
  /\ lastArg' = <<>>
  /\ pre' = collection
  /\ ret' = NoRet
  /\ UNCHANGED exists

FailedSuiteCount ==
  /\ lastOp = "none"
  /\ ret' = [value |-> failedSuiteCount(collection), lineAt |-> <<>>,
             threw |-> FALSE]
  /\ lastOp' = "failedSuiteCount"
  /\ lastArg' = <<>>
  /\ pre' = collection
  /\ UNCHANGED <<collection, exists>>

\* the call has returned and the host goes on
Return ==
  /\ lastOp # "none"
  /\ lastOp' = "none"
  /\ lastArg' = <<>>
  /\ pre' = [u \in {} |-> <<>>]
  /\ ret' = NoRet
  /\ UNCHANGED <<collection, exists>>

\* a file is deleted from disk, or created
FileSystemChange(path) ==
  /\ lastOp = "none"
  /\ exists' = [exists EXCEPT ![path] = ~exists[path]]
  /\ UNCHANGED <<collection, lastOp, lastArg, pre, ret>>

Next ==
  \/ \E testResults \in Batches : UpdateDiagnostics(testResults)
  \/ UpdateDiagnosticsAgain
  \/ \E in \in CurrentInputs :
       UpdateCurrentDiagnostics(in.testResults, in.editor)
  \/ ResetDiagnostics
  \/ FailedSuiteCount
  \/ Return
  \/ \E path \in Files : FileSystemChange(path)

Spec == Init /\ [][Next]_vars

(***************************************************************************)
(* What the properties below speak of.                                     *)
(***************************************************************************)
AfterUpdate == lastOp = "updateDiagnostics"
AfterCurrent == lastOp = "updateCurrentDiagnostics"

HasEntry(c, uri) == uri \in DOMAIN c

\* the indices of the failing assertions of an assertions array
FailingIdx(assertions) ==
  {j \in 1..Len(assertions) : assertions[j].status = KnownFail}

\* the k-th failing assertion of an assertions array
KthFailing(assertions, k) ==
  LET j == CHOOSE j \in FailingIdx(assertions) :
             Cardinality({i \in FailingIdx(assertions) : i <= j}) = k
  IN assertions[j]

\* the 0-based line a marker for an assertion is to be anchored at
AnchorLine(assertion) ==
  IF assertion.line # <<>> /\ assertion.line[1] > 0
  THEN assertion.line[1] - 1 ELSE 0

\* result i of the last batch is failing and has n >= 1 failing assertions
FailsWithAssertions(i) ==
  /\ lastArg[i].status = KnownFail
  /\ lastArg[i].assertions # <<>>
  /\ FailingIdx(lastArg[i].assertions[1]) # {}

\* the file of result i holds one marker per failing assertion, in order,
\* each on the line of its assertion
HoldsAssertionMarkers(i) ==
  LET uri == UriFile(lastArg[i].file)
      assertions == lastArg[i].assertions[1]
      n == Cardinality(FailingIdx(assertions))
  IN /\ HasEntry(collection, uri)
     /\ Len(collection[uri]) = n
     /\ \A k \in 1..n :
          /\ collection[uri][k].range.startLine = AnchorLine(KthFailing(assertions, k))
          /\ collection[uri][k].range.endLine = AnchorLine(KthFailing(assertions, k))

\* a result that sets or removes its file's entry: every result but a
\* failing one whose assertions array is missing
Effective(result) == result.status # KnownFail \/ result.assertions # <<>>

\* no result after result i of the last batch sets or removes the entry of
\* the file of result i
NotOverridden(i) ==
  \A j \in (i + 1)..Len(lastArg) :
    lastArg[j].file = lastArg[i].file => ~Effective(lastArg[j])

\* C1 as stated: after updateDiagnostics, every failing result of the batch
\* with N >= 1 failing assertions has exactly N markers for its file, one per
\* failing assertion, on line (assertion.line - 1), or 0 without a positive line.
C1_AsStated ==
  AfterUpdate =>
    \A i \in 1..Len(lastArg) : FailsWithAssertions(i) => HoldsAssertionMarkers(i)

\* C1 (amended): the same, for a result whose file exists when the call is
\* made and whose entry no later result of the batch for the same file sets or
\* removes.
C1_FailingAssertionMarkers ==
  AfterUpdate =>
    \A i \in 1..Len(lastArg) :
      (FailsWithAssertions(i) /\ exists[lastArg[i].file] /\ NotOverridden(i))
        => HoldsAssertionMarkers(i)

\* two failing assertions, one on a line past the first and one without a
\* line, and a passing one: two markers, on their lines
C1_Witness ==
  /\ AfterUpdate
  /\ \E i \in 1..Len(lastArg) :
       /\ FailsWithAssertions(i) /\ exists[lastArg[i].file] /\ NotOverridden(i)
       /\ Cardinality(FailingIdx(lastArg[i].assertions[1])) = 2
       /\ \E j \in FailingIdx(lastArg[i].assertions[1]) :
            AnchorLine(lastArg[i].assertions[1][j]) > 0
       /\ \E j \in FailingIdx(lastArg[i].assertions[1]) :
            lastArg[i].assertions[1][j].line = <<>>
       /\ HoldsAssertionMarkers(i)

\* C2 as stated: after updateDiagnostics, the file of every result of the
\* batch whose status is not Fail has no entry.
C2_AsStated ==
  AfterUpdate =>
    \A i \in 1..Len(lastArg) :
      lastArg[i].status # KnownFail
        => ~HasEntry(collection, UriFile(lastArg[i].file))

\* no failing result with an assertions array follows result i of the last
\* batch for the same file
NotSetAgain(i) ==
  \A j \in (i + 1)..Len(lastArg) :
    lastArg[j].file = lastArg[i].file
      => ~(lastArg[j].status = KnownFail /\ lastArg[j].assertions # <<>>)

\* C2 (amended): the same, for a result that no failing result with an
\* assertions array follows in the batch for the same file.
C2_NonFailingRemoved ==
  AfterUpdate =>
    \A i \in 1..Len(lastArg) :
      (lastArg[i].status # KnownFail /\ NotSetAgain(i))
        => ~HasEntry(collection, UriFile(lastArg[i].file))

\* a file that exists and held markers is reported as not failing
C2_Witness ==
  /\ AfterUpdate
  /\ \E i \in 1..Len(lastArg) :
       /\ lastArg[i].status # KnownFail /\ NotSetAgain(i)
       /\ exists[lastArg[i].file]
       /\ HasEntry(pre, UriFile(lastArg[i].file))
       /\ Len(pre[UriFile(lastArg[i].file)]) >= 1
       /\ ~HasEntry(collection, UriFile(lastArg[i].file))

\* result i of the last batch is failing with an empty assertions array
FailsWithoutAssertions(i) ==
  /\ lastArg[i].status = KnownFail
  /\ lastArg[i].assertions = Some(<<>>)

\* the file of result i holds one marker, on line 0, with the file-level
\* message if there is one (defined and not empty) and "test file error" if not
HoldsFileMarker(i) ==
  LET uri == UriFile(lastArg[i].file)
  IN /\ HasEntry(collection, uri)
     /\ Len(collection[uri]) = 1
     /\ collection[uri][1].range.startLine = 0
     /\ collection[uri][1].range.endLine = 0
     /\ collection[uri][1].message =
          IF TruthyStr(lastArg[i].message) THEN lastArg[i].message
          ELSE Some("test file error")

\* C3 as stated: after updateDiagnostics, the file of every failing result of
\* the batch with zero assertions has exactly one marker, on line 0, with the
\* file-level message or the fallback "test file error".
C3_AsStated ==
  AfterUpdate =>
    \A i \in 1..Len(lastArg) : FailsWithoutAssertions(i) => HoldsFileMarker(i)

\* C3 (amended): the same, for a result whose assertions array is present and
\* empty, whose file exists when the call is made and whose entry no later
\* result of the batch for the same file sets or removes.
C3_FileErrorMarker ==
  AfterUpdate =>
    \A i \in 1..Len(lastArg) :
      (FailsWithoutAssertions(i) /\ exists[lastArg[i].file] /\ NotOverridden(i))
        => HoldsFileMarker(i)

\* a file that held several markers fails with no assertions and a message
C3_Witness ==
  /\ AfterUpdate
  /\ \E i \in 1..Len(lastArg) :
       /\ FailsWithoutAssertions(i) /\ exists[lastArg[i].file] /\ NotOverridden(i)
       /\ lastArg[i].message = Some("SyntaxError")
       /\ HasEntry(pre, UriFile(lastArg[i].file))
       /\ Len(pre[UriFile(lastArg[i].file)]) >= 2
       /\ HoldsFileMarker(i)

\* C4: when updateDiagnostics returns, whatever the collection held and
\* whatever the batch, the collection holds no file that does not exist.
C4_Sweep ==
  (lastOp \in {"updateDiagnostics", "updateDiagnosticsAgain"}) =>
    \A uri \in DOMAIN collection : exists[uri.fsPath]

\* a file with markers is gone from disk and the batch does not mention it
C4_Witness ==
  /\ AfterUpdate
  /\ \E uri \in DOMAIN pre :
       /\ Len(pre[uri]) >= 1
       /\ ~exists[uri.fsPath]
       /\ \A i \in 1..Len(lastArg) : lastArg[i].file # uri.fsPath
       /\ ~HasEntry(collection, uri)

\* result i is the only result of the last batch for its file
OnlyForFile(i) ==
  \A j \in 1..Len(lastArg) : j # i => lastArg[j].file # lastArg[i].file

\* the marker set of a failing result, computed from that result alone
FileErrorSet(result) ==
  <<createDiagnostic(
      Some(IF TruthyStr(result.message) THEN result.message[1]
           ELSE "test file error"), 0, None, 0, 0)>>

AssertionSet(result) ==
  [k \in 1..Cardinality(FailingIdx(result.assertions[1])) |->
     AssertionDiagnostic(KthFailing(result.assertions[1], k))]

ComputedSet(result) ==
  IF result.assertions = Some(<<>>) THEN FileErrorSet(result)
  ELSE AssertionSet(result)

\* the entry of a file is after the call what it was before it
EntryUntouched(uri) ==
  /\ HasEntry(collection, uri) <=> HasEntry(pre, uri)
  /\ HasEntry(collection, uri) => collection[uri] = pre[uri]

C6_AsStated == \A uri \in DOMAIN collection : collection[uri] # <<>>

\* C7: updateDiagnostics called twice in a row with the same batch, the
\* files on disk unchanged, leaves the collection as the first call left it.
C7_Idempotent == lastOp = "updateDiagnosticsAgain" => collection = pre

\* the second call of a batch that set markers and removed an entry
C7_Witness ==
  /\ lastOp = "updateDiagnosticsAgain"
  /\ Len(lastArg) >= 2
  /\ \E uri \in DOMAIN collection : Len(collection[uri]) >= 1
  /\ \E i \in 1..Len(lastArg) : ~HasEntry(collection, UriFile(lastArg[i].file))
  /\ collection = pre

\* the sub-results of a result
Subs(tr) == IF tr.multiResults = <<>> THEN <<>> ELSE tr.multiResults[1]

\* the failing items of a result list: <<i, 0>> is top-level result i,
\* <<i, j>> its j-th sub-result
FailItems(t) ==
  {<<i, 0>> : i \in {n \in 1..Len(t) : t[n].status = KnownFail}}
  \cup UNION {{<<i, j>> : j \in {n \in 1..Len(Subs(t[i])) :
                                   Subs(t[i])[n].status = KnownFail}} :
              i \in 1..Len(t)}

\* C8: when updateCurrentDiagnostics returns for a non-empty result list, the
\* editor's file holds as many markers as there are failing items among the
\* top-level results and all their sub-results together.
C8_FlattenThenFilter ==
  (AfterCurrent /\ ~ret.threw /\ Len(lastArg.testResults) > 0) =>
    LET uri == lastArg.editor.document.uri
    IN /\ HasEntry(collection, uri)
       /\ Len(collection[uri]) = Cardinality(FailItems(lastArg.testResults))

\* one top-level result that does not fail, with 3 sub-results, 2 of them
\* failing: 2 markers
C8_Witness ==
  /\ AfterCurrent /\ ~ret.threw
  /\ Len(lastArg.testResults) = 1
  /\ lastArg.testResults[1].status # KnownFail
  /\ Len(Subs(lastArg.testResults[1])) = 3
  /\ Cardinality(FailItems(lastArg.testResults)) = 2
  /\ Len(collection[lastArg.editor.document.uri]) = 2

\* C9: updateCurrentDiagnostics called with no results removes the entry of
\* the editor's file, whatever it held, and asks for no line of the document.
C9_EmptyRemoves ==
  (AfterCurrent /\ Len(lastArg.testResults) = 0) =>
    /\ ~HasEntry(collection, lastArg.editor.document.uri)
    /\ ret.lineAt = <<>>
    /\ ~ret.threw

\* the editor's file held markers before the call
C9_Witness ==
  /\ AfterCurrent /\ Len(lastArg.testResults) = 0
  /\ HasEntry(pre, lastArg.editor.document.uri)
  /\ Len(pre[lastArg.editor.document.uri]) >= 1
  /\ ~HasEntry(collection, lastArg.editor.document.uri)
  /\ ret.lineAt = <<>>

\* C10 as stated: failedSuiteCount returns the number of files that hold at
\* least one marker; a file whose marker list is empty is not counted.
C10_AsStated ==
  lastOp = "failedSuiteCount" =>
    ret.value = Cardinality({uri \in DOMAIN collection : collection[uri] # <<>>})

\* C11: updateDiagnostics leaves the entry of every file that exists and that
\* the batch does not mention as it was: present or absent as before, with
\* the same marker list.
C11_UnmentionedUntouched ==
  AfterUpdate =>
    \A uri \in Uris :
      (exists[uri.fsPath] /\ \A i \in 1..Len(lastArg) : lastArg[i].file # uri.fsPath)
        => EntryUntouched(uri)

\* a batch that changes the entry of one file, while another file, on disk
\* and not in the batch, keeps its markers
C11_Witness ==
  /\ AfterUpdate
  /\ Len(lastArg) >= 1
  /\ collection # pre
  /\ \E uri \in DOMAIN pre :
       /\ exists[uri.fsPath]
       /\ \A i \in 1..Len(lastArg) : lastArg[i].file # uri.fsPath
       /\ Len(pre[uri]) >= 1
       /\ HasEntry(collection, uri) /\ collection[uri] = pre[uri]

\* C12: after resetDiagnostics, whatever the collection held, it holds no
\* entry for any file and failedSuiteCount returns 0.
C12_ResetClears ==
  lastOp = "resetDiagnostics" =>
    /\ \A uri \in Uris : ~HasEntry(collection, uri)
    /\ DOMAIN collection = {}
    /\ failedSuiteCount(collection) = 0

\* both files held an entry, one of them markers, before the reset
C12_Witness ==
  /\ lastOp = "resetDiagnostics"
  /\ \A uri \in Uris : HasEntry(pre, uri)
  /\ \E uri \in Uris : Len(pre[uri]) >= 2
  /\ failedSuiteCount(pre) = 2
  /\ failedSuiteCount(collection) = 0

\* the line C13 says a failing item is looked up at: its explicit error line
\* whenever it has one (line 0 too), its end line otherwise
ClaimedLine(r) ==
  IF r.lineNumberOfError # <<>> THEN r.lineNumberOfError[1] ELSE r.end.line

\* C13 as stated: every line updateCurrentDiagnostics asks lineAt for is the
\* explicit error line of the failing item it is for whenever the item has
\* one, for every value including line 0, and its end line only otherwise.
C13_AsStated ==
  AfterCurrent =>
    \A k \in 1..Len(ret.lineAt) :
      ret.lineAt[k] = ClaimedLine(AllFailing(lastArg.testResults)[k])

\* the markers the last updateDiagnostics call left for result i: result i is
\* failing with an assertions array, its file exists, no later result of the
\* batch sets or removes the entry
MarkersOfResult(i) ==
  /\ lastArg[i].status = KnownFail
  /\ lastArg[i].assertions # <<>>
  /\ exists[lastArg[i].file]
  /\ NotOverridden(i)

\* every marker of the list starts at column startCol and ends at column endCol
Columns(markers, startCol, endCol) ==
  \A k \in 1..Len(markers) :
    /\ markers[k].range.startCol = startCol
    /\ markers[k].range.endCol = endCol

\* every marker updateCurrentDiagnostics set covers the whole text of the line
\* lineAt was asked for
CoversLineText ==
  (AfterCurrent /\ ~ret.threw /\ Len(lastArg.testResults) > 0) =>
    LET markers == collection[lastArg.editor.document.uri]
        lines == lastArg.editor.document.lines
    IN /\ Len(markers) = Len(ret.lineAt)
       /\ \A k \in 1..Len(markers) :
            markers[k].range =
              Range(ret.lineAt[k], 0, ret.lineAt[k], Len(lines[ret.lineAt[k] + 1]))

ClaimedMessage(name, text) ==
  IF name # "" THEN Some(name \o "\n-----\n" \o text) ELSE Some(text)

\* the text C15 says the marker of an assertion carries: its short message,
\* else its full message, else the fallback
ClaimedAssertionText(assertion) ==
  IF TruthyStr(assertion.shortMessage) THEN assertion.shortMessage[1]
  ELSE IF assertion.message # <<>> THEN assertion.message[1]
  ELSE "unknown error"

\* the text C15 says the marker of a test result carries
ClaimedResultText(r) ==
  IF TruthyStr(r.shortMessage) THEN r.shortMessage[1]
  ELSE IF TruthyStr(r.terseMessage) THEN r.terseMessage[1]
  ELSE "unknown error"

\* C15 as stated: every marker of the collection carries a defined message;
\* the per-assertion markers of updateDiagnostics carry the assertion's short
\* message, else its full message, else the fallback "unknown error", after
\* the display name and the delimiter line when there is a display name; the
\* markers of updateCurrentDiagnostics likewise, with the terse message.
C15_AsStated ==
  /\ \A uri \in DOMAIN collection :
       \A k \in 1..Len(collection[uri]) : collection[uri][k].message # <<>>
  /\ AfterUpdate =>
       \A i \in 1..Len(lastArg) :
         (MarkersOfResult(i) /\ lastArg[i].assertions # Some(<<>>)) =>
           LET markers == collection[UriFile(lastArg[i].file)]
           IN \A k \in 1..Len(markers) :
                LET a == KthFailing(lastArg[i].assertions[1], k)
                IN markers[k].message =
                     ClaimedMessage(testIdString(a), ClaimedAssertionText(a))
  /\ (AfterCurrent /\ ~ret.threw /\ Len(lastArg.testResults) > 0) =>
       LET markers == collection[lastArg.editor.document.uri]
           failing == AllFailing(lastArg.testResults)
       IN \A k \in 1..Len(markers) :
            markers[k].message =
              ClaimedMessage(testIdString(failing[k].identifier),
                             ClaimedResultText(failing[k]))

\* the last updateCurrentDiagnostics call had a failing item whose line the
\* document does not have
LineOutOfRange ==
  \E k \in 1..Len(AllFailing(lastArg.testResults)) :
    LET line == ErrorLine(AllFailing(lastArg.testResults)[k])
    IN line < 0 \/ line >= Len(lastArg.editor.document.lines)

\* C16: when lineAt fails for a failing item, updateCurrentDiagnostics fails
\* and leaves the collection exactly as it was: no partial marker list is
\* set for the editor's file and no entry is deleted.
C16_FailureLeavesCollection ==
  (AfterCurrent /\ Len(lastArg.testResults) > 0 /\ LineOutOfRange) =>
    /\ ret.threw
    /\ collection = pre

\* the first failing item has a line of the document, the second has not,
\* and the editor's file held a marker
C16_Witness ==
  /\ AfterCurrent /\ ret.threw
  /\ Len(ret.lineAt) = 2
  /\ ret.lineAt[1] < Len(lastArg.editor.document.lines)
  /\ ret.lineAt[2] >= Len(lastArg.editor.document.lines)
  /\ HasEntry(pre, lastArg.editor.document.uri)
  /\ Len(pre[lastArg.editor.document.uri]) >= 1
  /\ collection = pre

\* C17: updateCurrentDiagnostics changes the entry of the editor's file only:
\* every other file keeps its entry as it was, a file that is not on disk
\* too (no existence sweep is made).
C17_OnlyActiveFile ==
  AfterCurrent =>
    \A uri \in Uris \ {lastArg.editor.document.uri} : EntryUntouched(uri)

\* the call sets markers for the editor's file; another file, not on disk,
\* keeps the markers it held
C17_Witness ==
  /\ AfterCurrent /\ ~ret.threw
  /\ HasEntry(collection, lastArg.editor.document.uri)
  /\ Len(collection[lastArg.editor.document.uri]) >= 1
  /\ collection # pre
  /\ \E uri \in Uris \ {lastArg.editor.document.uri} :
       /\ ~exists[uri.fsPath]
       /\ HasEntry(pre, uri) /\ Len(pre[uri]) >= 1
       /\ HasEntry(collection, uri) /\ collection[uri] = pre[uri]

\* the results of the last batch for a file, in input order
ResultsFor(path) == SelectSeq(lastArg, LAMBDA r : r.file = path)

\* the last result for a file that sets or removes its entry, if there is one
EffectiveFor(path) == SelectSeq(ResultsFor(path), Effective)

\* C18: when a batch holds several results for one file that exists, the
\* file's entry after updateDiagnostics is the one the last of them that is
\* not failing or has an assertions array gives alone: no entry if that one
\* is not failing, its own marker set if it is; the earlier results leave no
\* marker behind.
C18_LastResultDecides ==
  AfterUpdate =>
    \A path \in Files :
      (exists[path] /\ Len(ResultsFor(path)) >= 2 /\ EffectiveFor(path) # <<>>) =>
        LET last == EffectiveFor(path)[Len(EffectiveFor(path))]
        IN IF last.status # KnownFail
           THEN ~HasEntry(collection, UriFile(path))
           ELSE /\ HasEntry(collection, UriFile(path))
                /\ collection[UriFile(path)] = ComputedSet(last)

\* a file reported twice in one batch, first failing with no assertions
\* (a file-level marker), then failing with a failing assertion: the entry
\* is the assertion's marker alone
C18_Witness ==
  /\ AfterUpdate
  /\ Len(lastArg) = 2
  /\ lastArg[1].file = lastArg[2].file
  /\ exists[lastArg[1].file]
  /\ lastArg[1].status = KnownFail /\ lastArg[1].assertions = Some(<<>>)
  /\ lastArg[2].status = KnownFail /\ lastArg[2].assertions # <<>>
  /\ lastArg[2].assertions # Some(<<>>)
  /\ collection[UriFile(lastArg[1].file)] = ComputedSet(lastArg[2])
  /\ collection[UriFile(lastArg[1].file)] # ComputedSet(lastArg[1])

====
